---- MODULE Spec2Model ----
(***************************************************************************)
(* Model of the derating engine of Ampere_Analyzer                         *)
(* (src-tauri/src/simulation.rs, entry point run_simulation in lib.rs).    *)
(*                                                                         *)
(* f64 quantities (amperes, watts, degrees, ohms, ratios) are fixed-point  *)
(* integers with Scale units per 1.0; the results of a division by zero    *)
(* are the three special values PosInf, NegInf and NaN.  Every             *)
(* multiplication and division rounds (down) into that grid, as the f64    *)
(* operations round into theirs.                                           *)
(***************************************************************************)
EXTENDS Integers, Sequences, FiniteSets, TLC

\* ------------------------------------------------------------------ bounds
\* precision_steps ranges over 1..MaxSteps
MaxSteps == 3
\* max_current ranges over k * CurrentQuantum, k in 1..MaxCurrentK
MaxCurrentK == 4
\* a device label is the concatenation of at most MaxFragments fragments
MaxFragments == 2

\* --------------------------------------------------------- f64 arithmetic
\* fixed-point units per 1.0
Scale == 2^10

PosInf == 2^30
NegInf == -(2^30)
NaN == 2^30 + 1

IsNaN(x) == x = NaN
IsFinite(x) == x # PosInf /\ x # NegInf /\ x # NaN

\* u32 -> f64 (`as f64`)
ToF64(n) == n * Scale

\* f64 multiplication
FMul(a, b) == (a * b) \div Scale

\* f64 division; x / 0.0 is an infinity, 0.0 / 0.0 is NaN
FDiv(a, b) ==
    IF b = 0
    THEN IF a > 0 THEN PosInf ELSE IF a < 0 THEN NegInf ELSE NaN
    ELSE (a * Scale) \div b

\* x * 100.0 on a ratio that may be infinite or NaN
Times100(x) == IF IsFinite(x) THEN x * 100 ELSE x

\* f64::max: if one argument is NaN the other is returned
F64Max(a, b) ==
    IF IsNaN(a) THEN b ELSE IF IsNaN(b) THEN a ELSE IF a >= b THEN a ELSE b

\* f64::min: if one argument is NaN the other is returned
F64Min(a, b) ==
    IF IsNaN(a) THEN b ELSE IF IsNaN(b) THEN a ELSE IF a <= b THEN a ELSE b

\* 2^(k/15) in fixed point, rounded up, for k = 1..60: h >= Pow2Frac15[k]
\* iff 15 * log2(h) >= k
Pow2Frac15 ==
    << 1073, 1124, 1177, 1232, 1291, 1352, 1416, 1483, 1553, 1626,
       1703, 1783, 1868, 1956, 2048, 2145, 2247, 2353, 2464, 2581,
       2703, 2831, 2965, 3105, 3251, 3405, 3566, 3735, 3912, 4096,
       4290, 4493, 4706, 4928, 5161, 5405, 5661, 5929, 6209, 6502,
       6810, 7132, 7469, 7823, 8192, 8580, 8986, 9411, 9856, 10322,
       10810, 11321, 11857, 12417, 13004, 13620, 14264, 14938, 15645, 16384 >>

\* (x.log2() * 15.0) as u32: the cast truncates and saturates, so a
\* negative product (x < 1.0) and NaN (x < 0) and -inf (x = 0) all give 0
Log2Times15AsU32(x) ==
    Cardinality({k \in 1..Len(Pow2Frac15) : Pow2Frac15[k] <= x})

\* format!("{:.2}", x): x in hundredths, rounded to nearest, ties to even
Fmt2(x) ==
    LET n == x * 100
        q == n \div Scale
        r == n % Scale
    IN  IF 2 * r > Scale THEN q + 1
        ELSE IF 2 * r < Scale THEN q
        ELSE IF q % 2 = 0 THEN q ELSE q + 1

\* ---------------------------------------------------------------- strings
\* a string is a sequence of one-character strings
RECURSIVE Flatten(_)
Flatten(ss) == IF ss = <<>> THEN <<>> ELSE Head(ss) \o Flatten(Tail(ss))

\* str::contains
Contains(s, m) ==
    \E k \in 0..(Len(s) - Len(m)) : SubSeq(s, k + 1, k + Len(m)) = m

StrMOSFET == <<"M", "O", "S", "F", "E", "T">>
StrNChannel == <<"N", "-", "C", "h", "a", "n", "n", "e", "l">>
StrPChannel == <<"P", "-", "C", "h", "a", "n", "n", "e", "l">>
StrGaN == <<"G", "a", "N">>
StrNPN == <<"N", "P", "N">>
StrPNP == <<"P", "N", "P">>
StrIGBT == <<"I", "G", "B", "T">>

\* the label of the repository's test parameters, "MOSFET (N-Channel)"
LabelNMosfet == StrMOSFET \o <<" ", "(">> \o StrNChannel \o <<")">>

\* ------------------------------------------------------- TransistorType
TransistorTypes ==
    {"NChannelMosfet", "PChannelMosfet", "GaNFet", "NpnBjt", "PnpBjt", "Igbt"}

is_mosfet_type(t) == t \in {"NChannelMosfet", "PChannelMosfet", "GaNFet"}

\* a classifier whose IGBT arm is missing
from_string_without_igbt(s) ==
    IF Contains(s, StrMOSFET) /\ Contains(s, StrNChannel) THEN "NChannelMosfet"
    ELSE IF Contains(s, StrMOSFET) /\ Contains(s, StrPChannel) THEN "PChannelMosfet"
    ELSE IF Contains(s, StrGaN) THEN "GaNFet"
    ELSE IF Contains(s, StrNPN) THEN "NpnBjt"
    ELSE IF Contains(s, StrPNP) THEN "PnpBjt"
    ELSE "NChannelMosfet"

from_string(s) ==
    IF Contains(s, StrMOSFET) /\ Contains(s, StrNChannel) THEN "NChannelMosfet"
    ELSE IF Contains(s, StrMOSFET) /\ Contains(s, StrPChannel) THEN "PChannelMosfet"
    ELSE IF Contains(s, StrGaN) THEN "GaNFet"
    ELSE IF Contains(s, StrNPN) THEN "NpnBjt"
    ELSE IF Contains(s, StrPNP) THEN "PnpBjt"
    ELSE IF Contains(s, StrIGBT) THEN "Igbt"
    ELSE "NChannelMosfet"

\* ------------------------------------------------------ SimulationEngine
\* Option<f64> is a set with at most one element
NoneF64 == {}
SomeF64(x) == {x}
UnwrapOr(o, d) == IF o = {} THEN d ELSE CHOOSE x \in o : TRUE

\* Option<String> of a failure category: None is NoFailure
NoFailure == "None"

\* a verdict whose FirstToFail arm ignores the classification
IsSafeTemperatureForFtf(p, final_temp, p_total, failure_reason) ==
    IF p.simulation_mode = "Temp" THEN final_temp <= p.max_temperature
    ELSE IF p.simulation_mode = "Budget"
         THEN p_total <= p.effective_cooling_budget
    ELSE final_temp <= p.max_temperature

\* the match on simulation_mode of check_current
IsSafe(p, final_temp, p_total, failure_reason) ==
    IF p.simulation_mode = "Temp" THEN final_temp <= p.max_temperature
    ELSE IF p.simulation_mode = "Budget"
         THEN p_total <= p.effective_cooling_budget
    ELSE failure_reason = NoFailure

\* a chain that tests the current rating before the cooling budget
check_other_limits_current_first(p, current, p_total) ==
    IF current > p.max_current
    THEN [reason |-> "Current",
          details |-> <<"Exceeded max current rating of", Fmt2(p.max_current)>>]
    ELSE IF p.simulation_mode # "Temp" /\ p_total > p.effective_cooling_budget
    THEN [reason |-> "Cooling Budget",
          details |-> <<"Exceeded cooling budget of",
                        p.effective_cooling_budget, Fmt2(p_total)>>]
    ELSE [reason |-> NoFailure, details |-> <<"Operating within safe limits.">>]

\* a chain without the current rating
check_other_limits_without_current(p, current, p_total) ==
    IF p.simulation_mode # "Temp" /\ p_total > p.effective_cooling_budget
    THEN [reason |-> "Cooling Budget",
          details |-> <<"Exceeded cooling budget of",
                        p.effective_cooling_budget, Fmt2(p_total)>>]
    ELSE [reason |-> NoFailure, details |-> <<"Operating within safe limits.">>]

check_other_limits(p, current, p_total) ==
    IF p.simulation_mode # "Temp" /\ p_total > p.effective_cooling_budget
    THEN [reason |-> "Cooling Budget",
          details |-> <<"Exceeded cooling budget of",
                        p.effective_cooling_budget, Fmt2(p_total)>>]
    ELSE IF current > p.max_current
    THEN [reason |-> "Current",
          details |-> <<"Exceeded max current rating of", Fmt2(p.max_current)>>]
    ELSE [reason |-> NoFailure, details |-> <<"Operating within safe limits.">>]

\* a classification that reports nothing for a thermal overshoot
determine_failure_without_thermal(p, current, final_temp, p_total) ==
    IF p.power_dissipation # {} /\ p_total > UnwrapOr(p.power_dissipation, 0)
    THEN [reason |-> "Power Dissipation",
          details |-> <<"Exceeded component's max power dissipation of",
                        UnwrapOr(p.power_dissipation, 0), Fmt2(p_total)>>]
    ELSE check_other_limits(p, current, p_total)

determine_failure(p, current, final_temp, p_total) ==
    IF final_temp > p.max_temperature
    THEN [reason |-> "Thermal",
          details |-> <<"Exceeded max junction temp of",
                        p.max_temperature, Fmt2(final_temp)>>]
    ELSE IF p.power_dissipation # {} /\ p_total > UnwrapOr(p.power_dissipation, 0)
    THEN [reason |-> "Power Dissipation",
          details |-> <<"Exceeded component's max power dissipation of",
                        UnwrapOr(p.power_dissipation, 0), Fmt2(p_total)>>]
    ELSE check_other_limits(p, current, p_total)

\* rise and fall time are nanoseconds and the switching frequency is kHz:
\* (rise + fall) * 1e-9 * (f * 1000.0) is (rise + fall) * f / 10^6
SwitchingLoss(p, current) ==
    (FMul(p.max_voltage \div 2, current)
        * (p.rise_time + p.fall_time) * p.switching_frequency) \div (10^6)

ConductionLoss(p, tt, current) ==
    IF is_mosfet_type(tt)
    THEN FMul(FMul(current, current), p.rds_on_ohms) \div 2
    ELSE FMul(current, UnwrapOr(p.vce_sat, 0)) \div 2

check_current(p, tt, current) ==
    LET p_cond == ConductionLoss(p, tt, current)
        p_sw == SwitchingLoss(p, current)
        p_total == p_cond + p_sw
        temp_rise == FMul(p_total, p.total_rth)
        final_temp == p.ambient_temperature + temp_rise
        failure == determine_failure(p, current, final_temp, p_total)
    IN  [is_safe |-> IsSafe(p, final_temp, p_total, failure.reason),
         failure_reason |-> failure.reason,
         details |-> failure.details,
         final_temperature |-> final_temp,
         power_dissipation |->
             [total |-> p_total, conduction |-> p_cond, switching |-> p_sw]]

\* the (progress, limit_value) match of create_data_point, before the clamp
ProgressAndLimit(p, current, cr) ==
    IF p.simulation_mode = "Temp"
    THEN [progress |-> Times100(FDiv(cr.final_temperature, p.max_temperature)),
          limit_value |-> p.max_temperature]
    ELSE IF p.simulation_mode = "Budget"
    THEN [progress |-> Times100(FDiv(cr.power_dissipation.total,
                                     p.effective_cooling_budget)),
          limit_value |-> p.effective_cooling_budget]
    ELSE LET temp_progress ==
                 Times100(FDiv(cr.final_temperature, p.max_temperature))
             power_progress ==
                 IF p.power_dissipation = {} THEN 0
                 ELSE Times100(FDiv(cr.power_dissipation.total,
                                    UnwrapOr(p.power_dissipation, 0)))
             budget_progress ==
                 Times100(FDiv(cr.power_dissipation.total,
                               p.effective_cooling_budget))
             current_progress == Times100(FDiv(current, p.max_current))
         IN  [progress |-> F64Max(F64Max(F64Max(temp_progress, power_progress),
                                         budget_progress), current_progress),
              limit_value |-> ToF64(100)]

create_data_point(p, tt, current) ==
    LET check_result == check_current(p, tt, current)
        pl == ProgressAndLimit(p, current, check_result)
    IN  [current |-> current,
         temperature |-> check_result.final_temperature,
         power_loss |-> check_result.power_dissipation.total,
         conduction_loss |-> check_result.power_dissipation.conduction,
         switching_loss |-> check_result.power_dissipation.switching,
         progress |-> F64Min(pl.progress, ToF64(100)),
         limit_value |-> pl.limit_value,
         check_result |-> check_result]

\* stable sort by ascending current (Vec::sort_by with partial_cmp)
RECURSIVE InsertByCurrent(_, _)
InsertByCurrent(dp, sorted) ==
    IF sorted = <<>> THEN <<dp>>
    ELSE IF dp.current < Head(sorted).current THEN <<dp>> \o sorted
    ELSE <<Head(sorted)>> \o InsertByCurrent(dp, Tail(sorted))

RECURSIVE SortByCurrent(_)
SortByCurrent(pts) ==
    IF pts = <<>> THEN <<>>
    ELSE InsertByCurrent(pts[Len(pts)], SortByCurrent(SubSeq(pts, 1, Len(pts) - 1)))

\* x < 0.01
LessThanHundredth(x) == x * 100 < Scale

\* ------------------------------------------------------ parameter space
\* 0.375 A
CurrentQuantum == (3 * Scale) \div 8

BaseParams ==
    [max_current |-> 4 * CurrentQuantum,
     max_voltage |-> ToF64(55),
     power_dissipation |-> SomeF64(ToF64(4)),
     rth_jc |-> ToF64(1),
     rise_time |-> 60,
     fall_time |-> 45,
     switching_frequency |-> 100,
     max_temperature |-> ToF64(100),
     ambient_temperature |-> ToF64(25),
     total_rth |-> ToF64(10),
     transistor_type |-> LabelNMosfet,
     rds_on_ohms |-> ToF64(8),
     vce_sat |-> NoneF64,
     simulation_mode |-> "Ftf",
     cooling_budget |-> NoneF64,
     simulation_algorithm |-> "Iterative",
     precision_steps |-> 2,
     effective_cooling_budget |-> ToF64(50)]

Modes == {"Ftf", "Temp", "Budget"}
Algorithms == {"Iterative", "Binary"}

ParamSpace ==
    {[BaseParams EXCEPT
        !.max_current = k * CurrentQuantum,
        !.power_dissipation = pd,
        !.ambient_temperature = ta,
        !.total_rth = rth,
        !.transistor_type = lbl,
        !.vce_sat = vs,
        !.simulation_mode = m,
        !.simulation_algorithm = a,
        !.precision_steps = n,
        !.effective_cooling_budget = b] :
        k \in 1..MaxCurrentK,
        pd \in {NoneF64, SomeF64(ToF64(4))},
        ta \in {ToF64(-40), ToF64(25), ToF64(120)},
        rth \in {0, ToF64(10)},
        lbl \in {LabelNMosfet, StrIGBT},
        vs \in {NoneF64, SomeF64(ToF64(2))},
        m \in Modes,
        a \in Algorithms,
        n \in 1..MaxSteps,
        b \in {0, ToF64(5), ToF64(50)}}

Fragments ==
    {StrMOSFET, StrNChannel, StrPChannel, StrGaN, StrNPN, StrPNP, StrIGBT,
     LabelNMosfet, <<"I", "G", "B">>, <<"T">>, <<"i", "g", "b", "t">>,
     <<"B", "J", "T">>, <<" ">>}

Labels ==
    {Flatten(fs) : fs \in UNION {[1..n -> Fragments] : n \in 0..MaxFragments}}

LabelParamSpace ==
    {[BaseParams EXCEPT !.transistor_type = lbl, !.simulation_algorithm = a] :
        lbl \in Labels, a \in Algorithms}

\* ------------------------------------------------------------------ state
VARIABLES
    params,             \* SimulationParams handed to run_simulation
    transistor_type,    \* SimulationEngine.transistor_type
    pc,                 \* position of the call
    i,                  \* run_iterative: loop index
    low, high,          \* run_binary_search: bounds
    iter,               \* run_binary_search: iterations done
    max_iterations,     \* run_binary_search: iteration budget
    max_safe_current,
    data_points,
    final_data_point,   \* Option<DataPoint>: <<>> or <<dp>>
    result              \* returned SimulationResult: <<>> or <<r>>

vars == <<params, transistor_type, pc, i, low, high, iter, max_iterations,
          max_safe_current, data_points, final_data_point, result>>

InitLocals ==
    /\ transistor_type = "NChannelMosfet"
    /\ pc = "start"
    /\ i = 0
    /\ low = 0
    /\ high = 0
    /\ iter = 0
    /\ max_iterations = 0
    /\ max_safe_current = 0
    /\ data_points = <<>>
    /\ final_data_point = <<>>
    /\ result = <<>>

Init == params \in ParamSpace /\ InitLocals

LabelInit == params \in LabelParamSpace /\ InitLocals

\* SimulationEngine::new
New ==
    /\ pc = "start"
    /\ transistor_type' = from_string(params.transistor_type)
    /\ pc' = "constructed"
    /\ UNCHANGED <<params, i, low, high, iter, max_iterations,
                   max_safe_current, data_points, final_data_point, result>>

\* run, Iterative arm, and the prologue of run_iterative
RunIterative ==
    /\ pc = "constructed"
    /\ params.simulation_algorithm = "Iterative"
    /\ max_safe_current' = 0
    /\ data_points' = <<>>
    /\ final_data_point' = <<>>
    /\ i' = 0
    /\ pc' = "iterative"
    /\ UNCHANGED <<params, transistor_type, low, high, iter, max_iterations, result>>

\* i as f64 * (max_current_range / precision_steps as f64)
SweepCurrent(p, n) ==
    FMul(ToF64(n), FDiv((p.max_current * 12) \div 10, ToF64(p.precision_steps)))

\* a loop body that records an unsafe sample and goes on
IterativeStepWithoutBreak ==
    /\ pc = "iterative"
    /\ i <= params.precision_steps
    /\ final_data_point = <<>>
    /\ LET data_point == create_data_point(params, transistor_type,
                                           SweepCurrent(params, i))
       IN  /\ data_points' = Append(data_points, data_point)
           /\ max_safe_current' = IF data_point.check_result.is_safe
                                  THEN data_point.current ELSE max_safe_current
           /\ final_data_point' = <<>>
    /\ i' = i + 1
    /\ UNCHANGED <<params, transistor_type, pc, low, high, iter,
                   max_iterations, result>>

\* one iteration of the for loop of run_iterative
IterativeStep ==
    /\ pc = "iterative"
    /\ i <= params.precision_steps
    /\ final_data_point = <<>>
    /\ LET data_point == create_data_point(params, transistor_type,
                                           SweepCurrent(params, i))
       IN  /\ data_points' = Append(data_points, data_point)
           /\ IF data_point.check_result.is_safe
              THEN /\ max_safe_current' = data_point.current
                   /\ final_data_point' = <<>>
              ELSE /\ max_safe_current' = max_safe_current
                   /\ final_data_point' = <<data_point>>
    /\ i' = i + 1
    /\ UNCHANGED <<params, transistor_type, pc, low, high, iter,
                   max_iterations, result>>

\* the summary of run_iterative, after the loop
IterativeFinish ==
    /\ pc = "iterative"
    /\ (i > params.precision_steps \/ final_data_point # <<>>)
    /\ IF final_data_point # <<>>
       THEN LET dp == final_data_point[1]
            IN  result' = <<[status |-> "success",
                             max_safe_current |-> max_safe_current,
                             failure_reason |-> dp.check_result.failure_reason,
                             details |-> dp.check_result.details,
                             final_temperature |-> dp.check_result.final_temperature,
                             power_dissipation |-> dp.check_result.power_dissipation,
                             data_points |-> data_points]>>
       ELSE LET final_check == check_current(params, transistor_type,
                                             max_safe_current)
            IN  result' = <<[status |-> "success",
                             max_safe_current |-> max_safe_current,
                             failure_reason |-> NoFailure,
                             details |-> <<"Device operates safely up to",
                                           Fmt2(max_safe_current)>>,
                             final_temperature |-> final_check.final_temperature,
                             power_dissipation |-> final_check.power_dissipation,
                             data_points |-> data_points]>>
    /\ pc' = "done"
    /\ UNCHANGED <<params, transistor_type, i, low, high, iter, max_iterations,
                   max_safe_current, data_points, final_data_point>>

\* run, Binary arm, and the prologue of run_binary_search
RunBinary ==
    /\ pc = "constructed"
    /\ params.simulation_algorithm = "Binary"
    /\ low' = 0
    /\ high' = (params.max_current * 3) \div 2
    /\ max_safe_current' = 0
    /\ max_iterations' = Log2Times15AsU32(high' - low')
    /\ iter' = 0
    /\ data_points' = <<>>
    /\ pc' = "binary"
    /\ UNCHANGED <<params, transistor_type, i, final_data_point, result>>

\* (low + high) / 2.0
Mid(lo, hi) == FDiv(lo + hi, ToF64(2))

\* the loop of run_binary_search goes on
BinaryContinues ==
    /\ iter < max_iterations
    /\ ~LessThanHundredth(high - low)
    /\ ~(Mid(low, high) <= 0)

\* a loop body that moves the wrong bound
BinaryStepSwapped ==
    /\ pc = "binary"
    /\ BinaryContinues
    /\ LET mid == Mid(low, high)
           data_point == create_data_point(params, transistor_type, mid)
       IN  /\ data_points' = Append(data_points, data_point)
           /\ IF data_point.check_result.is_safe
              THEN /\ max_safe_current' = mid
                   /\ high' = mid
                   /\ low' = low
              ELSE /\ max_safe_current' = max_safe_current
                   /\ low' = mid
                   /\ high' = high
    /\ iter' = iter + 1
    /\ UNCHANGED <<params, transistor_type, pc, i, max_iterations,
                   final_data_point, result>>

\* one iteration of the for loop of run_binary_search
BinaryStep ==
    /\ pc = "binary"
    /\ BinaryContinues
    /\ LET mid == Mid(low, high)
           data_point == create_data_point(params, transistor_type, mid)
       IN  /\ data_points' = Append(data_points, data_point)
           /\ IF data_point.check_result.is_safe
              THEN /\ max_safe_current' = mid
                   /\ low' = mid
                   /\ high' = high
              ELSE /\ max_safe_current' = max_safe_current
                   /\ low' = low
                   /\ high' = mid
    /\ iter' = iter + 1
    /\ UNCHANGED <<params, transistor_type, pc, i, max_iterations,
                   final_data_point, result>>

\* a summary taken from the highest point of the curve
BinaryFinishFromCurve ==
    /\ pc = "binary"
    /\ ~BinaryContinues
    /\ LET sorted == SortByCurrent(data_points)
           final_check ==
               IF sorted = <<>>
               THEN check_current(params, transistor_type, max_safe_current)
               ELSE sorted[Len(sorted)].check_result
       IN  /\ data_points' = sorted
           /\ result' = <<[status |-> "success",
                           max_safe_current |-> max_safe_current,
                           failure_reason |-> final_check.failure_reason,
                           details |-> final_check.details,
                           final_temperature |-> final_check.final_temperature,
                           power_dissipation |-> final_check.power_dissipation,
                           data_points |-> sorted]>>
    /\ pc' = "done"
    /\ UNCHANGED <<params, transistor_type, i, low, high, iter, max_iterations,
                   max_safe_current, final_data_point>>

\* the sort and the summary of run_binary_search, after the loop
BinaryFinish ==
    /\ pc = "binary"
    /\ ~BinaryContinues
    /\ LET sorted == SortByCurrent(data_points)
           final_check == check_current(params, transistor_type, max_safe_current)
       IN  /\ data_points' = sorted
           /\ result' = <<[status |-> "success",
                           max_safe_current |-> max_safe_current,
                           failure_reason |-> NoFailure,
                           details |-> <<"Device operates safely up to",
                                         Fmt2(max_safe_current)>>,
                           final_temperature |-> final_check.final_temperature,
                           power_dissipation |-> final_check.power_dissipation,
                           data_points |-> sorted]>>
    /\ pc' = "done"
    /\ UNCHANGED <<params, transistor_type, i, low, high, iter, max_iterations,
                   max_safe_current, final_data_point>>

Next ==
    \/ New
    \/ RunIterative
    \/ IterativeStep
    \/ IterativeFinish
    \/ RunBinary
    \/ BinaryStep
    \/ BinaryFinish

Spec == Init /\ [][Next]_vars

\* the same engine, run on every label of Labels
SpecLabel == LabelInit /\ [][Next]_vars

\* ----------------------------------------------------------------- claims
Done == pc = "done"
Summary == result[1]
IsIterative == params.simulation_algorithm = "Iterative"
IsBinary == params.simulation_algorithm = "Binary"
Mode == params.simulation_mode
Running == pc \in {"iterative", "binary", "done"}
Points == {data_points[k] : k \in 1..Len(data_points)}

\* C1: every run that has returned has status "success" and a non-empty
\* curve, under LinearSweep and under BinarySearch.
C1_SuccessWithNonEmptyCurve ==
    Done => Summary.status = "success" /\ Summary.data_points # <<>>

\* C2: in a LinearSweep run the currents of the curve are non-decreasing and
\* start at 0; an unsafe point is the last point, every earlier point is safe,
\* and max_safe_current is the current of the point before it, or 0 when the
\* first sample is the unsafe one.
C2_LinearSweepOrder ==
    (IsIterative /\ Running) =>
        /\ \A k \in 1..(Len(data_points) - 1) :
               data_points[k].current <= data_points[k + 1].current
        /\ data_points # <<>> => data_points[1].current = 0
        /\ \A k \in 1..Len(data_points) :
               ~data_points[k].check_result.is_safe =>
                   /\ k = Len(data_points)
                   /\ \A j \in 1..(k - 1) : data_points[j].check_result.is_safe
                   /\ max_safe_current =
                          IF k = 1 THEN 0 ELSE data_points[k - 1].current
        /\ Done => /\ Summary.data_points = data_points
                   /\ Summary.max_safe_current = max_safe_current

C2_Witness ==
    /\ IsIterative /\ Done
    /\ Len(Summary.data_points) >= 3
    /\ ~Summary.data_points[Len(Summary.data_points)].check_result.is_safe
    /\ Summary.max_safe_current > 0

\* C3: the summary of a BinarySearch run has no failure category, carries the
\* generic "operates safely up to X A" message, and its temperature and power
\* breakdown are those of an evaluation at max_safe_current.
C3_BinarySummaryGeneric ==
    (IsBinary /\ Done) =>
        LET fresh == check_current(params, transistor_type,
                                   Summary.max_safe_current)
        IN  /\ Summary.failure_reason = NoFailure
            /\ Summary.details =
                   <<"Device operates safely up to", Fmt2(Summary.max_safe_current)>>
            /\ Summary.final_temperature = fresh.final_temperature
            /\ Summary.power_dissipation = fresh.power_dissipation

C3_Witness ==
    /\ IsBinary /\ Done
    /\ Summary.max_safe_current = 0
    /\ Summary.data_points # <<>>
    /\ \A k \in 1..Len(Summary.data_points) :
           /\ ~Summary.data_points[k].check_result.is_safe
           /\ Summary.data_points[k].check_result.failure_reason # NoFailure

\* C4: the verdict of every evaluated current is: TemperatureOnly, T <= T_max;
\* BudgetOnly, P_total <= effective cooling budget; FirstToFail, no failure
\* category.
C4_VerdictByMode ==
    \A dp \in Points :
        LET cr == dp.check_result
        IN  /\ Mode = "Temp" =>
                (cr.is_safe <=> cr.final_temperature <= params.max_temperature)
            /\ Mode = "Budget" =>
                (cr.is_safe <=>
                    cr.power_dissipation.total <= params.effective_cooling_budget)
            /\ Mode = "Ftf" => (cr.is_safe <=> cr.failure_reason = NoFailure)

C4_Witness ==
    /\ Done
    /\ Mode = "Budget"
    /\ \E dp \in Points :
           dp.check_result.is_safe /\ dp.check_result.failure_reason = "Thermal"
    /\ \E dp \in Points : ~dp.check_result.is_safe

\* the first match of the chain Thermal, Power Dissipation, Cooling Budget,
\* Current, for a point of the curve
ChainCategory(dp) ==
    IF dp.temperature > params.max_temperature THEN "Thermal"
    ELSE IF \E pd \in params.power_dissipation : dp.power_loss > pd
         THEN "Power Dissipation"
    ELSE IF Mode # "Temp" /\ dp.power_loss > params.effective_cooling_budget
         THEN "Cooling Budget"
    ELSE IF dp.current > params.max_current THEN "Current"
    ELSE NoFailure

\* C5: the failure category of every evaluation is the first match of the
\* chain Thermal (T > T_max), Power Dissipation (limit configured and
\* exceeded), Cooling Budget (mode not TemperatureOnly and budget exceeded),
\* Current (I > max current), none; TemperatureOnly never yields Cooling
\* Budget.
C5_FailureChain ==
    \A dp \in Points :
        /\ dp.check_result.failure_reason = ChainCategory(dp)
        /\ Mode = "Temp" => dp.check_result.failure_reason # "Cooling Budget"

C5_Witness ==
    \E dp \in Points :
        /\ dp.check_result.failure_reason = "Cooling Budget"
        /\ dp.current > params.max_current

\* C6: the progress of every curve point lies in [0, 100].
C6_ProgressInRange ==
    \A dp \in Points : 0 <= dp.progress /\ dp.progress <= ToF64(100)

MatchesHigherThanIgbt(s) ==
    \/ Contains(s, StrMOSFET) /\ Contains(s, StrNChannel)
    \/ Contains(s, StrMOSFET) /\ Contains(s, StrPChannel)
    \/ Contains(s, StrGaN)
    \/ Contains(s, StrNPN)
    \/ Contains(s, StrPNP)

\* C7 as stated: "MOSFET (N-Channel)" is classified N-channel MOSFET
\* (resistive), every label containing "IGBT" is classified IGBT
\* (saturation), every label matching no marker is classified N-channel
\* MOSFET.
C7_Original ==
    pc # "start" =>
        LET s == params.transistor_type
        IN  /\ s = LabelNMosfet =>
                transistor_type = "NChannelMosfet" /\ is_mosfet_type(transistor_type)
            /\ Contains(s, StrIGBT) =>
                transistor_type = "Igbt" /\ ~is_mosfet_type(transistor_type)
            /\ (~MatchesHigherThanIgbt(s) /\ ~Contains(s, StrIGBT)) =>
                transistor_type = "NChannelMosfet"

\* C7 (amended): "MOSFET (N-Channel)" is classified N-channel MOSFET
\* (resistive); every label containing "IGBT" that matches none of the
\* markers of higher priority ("MOSFET" with "N-Channel", "MOSFET" with
\* "P-Channel", "GaN", "NPN", "PNP") is classified IGBT (saturation); every
\* label matching no marker is classified N-channel MOSFET.
C7_Classification ==
    pc # "start" =>
        LET s == params.transistor_type
        IN  /\ s = LabelNMosfet =>
                transistor_type = "NChannelMosfet" /\ is_mosfet_type(transistor_type)
            /\ (Contains(s, StrIGBT) /\ ~MatchesHigherThanIgbt(s)) =>
                transistor_type = "Igbt" /\ ~is_mosfet_type(transistor_type)
            /\ (~MatchesHigherThanIgbt(s) /\ ~Contains(s, StrIGBT)) =>
                transistor_type = "NChannelMosfet"

C7_Witness ==
    /\ pc # "start"
    /\ Contains(params.transistor_type, StrIGBT)
    /\ Len(params.transistor_type) > Len(StrIGBT)
    /\ transistor_type = "Igbt"

\* C8: in FirstToFail mode every evaluated current above max current is
\* unsafe and max_safe_current never exceeds max current; in every mode
\* max_safe_current is 0 or the current of a safe point of the curve.
C8_MaxSafeCurrentBounded ==
    /\ Mode = "Ftf" =>
           /\ \A dp \in Points :
                  dp.current > params.max_current => ~dp.check_result.is_safe
           /\ max_safe_current <= params.max_current
    /\ \/ max_safe_current = 0
       \/ \E dp \in Points :
              dp.current = max_safe_current /\ dp.check_result.is_safe
    /\ Done => Summary.max_safe_current = max_safe_current

C8_Witness ==
    /\ Done
    /\ Mode = "Ftf"
    /\ Summary.max_safe_current > 0
    /\ \E dp \in Points : dp.current > params.max_current

C10_UnsafeHasCategory ==
    /\ \A dp \in Points :
           /\ ~dp.check_result.is_safe => dp.check_result.failure_reason # NoFailure
           /\ (Mode = "Temp" /\ ~dp.check_result.is_safe) =>
                  dp.check_result.failure_reason = "Thermal"
           /\ (Mode = "Ftf" /\ dp.check_result.is_safe) =>
                  dp.check_result.failure_reason = NoFailure
    /\ (IsIterative /\ Done /\ final_data_point # <<>>) =>
           Summary.failure_reason # NoFailure

\* a LinearSweep run that stopped at an unsafe sample, in a mode where a safe
\* point of the curve carries a category
C10_Witness ==
    /\ IsIterative /\ Done
    /\ final_data_point # <<>>
    /\ Mode \in {"Temp", "Budget"}
    /\ \E dp \in Points :
           dp.check_result.is_safe /\ dp.check_result.failure_reason # NoFailure

====
